---- MODULE Spec2Model ----
(***************************************************************************)
(* Model of the value-resolution pipeline of capybara-rs/scheduler:        *)
(*   - src/yaml/mod.rs      the environment substitution pass (EnvReplacer)*)
(*   - src/config/value.rs  the typed-value parser (Value::from_entry)     *)
(*   - src/config/http.rs   the Headers visitor that uses restricted mode  *)
(* Strings are sequences of one-character strings, so that find, split_off *)
(* and replace are computed character by character as the library does.    *)
(***************************************************************************)
EXTENDS Integers, Sequences, FiniteSets, TLC

VARIABLES
    env,      \* the live process environment (std::env), name -> value
    pc,       \* "idle" | "running" | "returned" | "aborted" (stack exhausted)
    input,    \* the document handed to recursive_replace_env
    envs,     \* EnvReplacer.envs, the snapshot collected at call time
    stack,    \* the call stack of the walk, innermost frame last
    ret,      \* the Result travelling back to the caller of the top frame
    scanned,  \* history: the strings replace_value handed to replace_string
    changes,  \* number of environment changes made by other threads
    entry,    \* the tagged mapping handed to the typed-value parser
    mode,     \* "idle" | "full" | "basic" | "headers": parser entry point used
    parsed    \* the Result of the parser call

vars == <<env, pc, input, envs, stack, ret, scanned, changes, entry, mode, parsed>>

resolverVars == <<env, pc, input, envs, stack, ret, scanned, changes>>
parserVars == <<entry, mode, parsed>>

---------------------------------------------------------------------------
(* Bounds of the model.                                                    *)

MaxPieces == 3       \* a string leaf of SpecStr is built from at most this many pieces
MaxItems == 2        \* a sequence or mapping of Spec has at most this many items
MaxEnvChanges == 1   \* environment changes by other threads during one call
StackLimit == 9      \* frames the call stack can hold before the process aborts
IntBits == 4         \* width of the model's integers, standing for the 64 of u64 and i64

---------------------------------------------------------------------------
(* Strings.                                                                *)

\* const ENV_SYMBOL: &str = "env!(";
ENV_SYMBOL == <<"e", "n", "v", "!", "(">>

CloseParen == ")"

\* s[i..] starts with pat (i is a 1-based position)
StartsWithAt(s, pat, i) ==
    /\ i >= 1
    /\ i + Len(pat) - 1 <= Len(s)
    /\ SubSeq(s, i, i + Len(pat) - 1) = pat

\* str::rfind: the 1-based position of the last occurrence of pat, 0 for None
FindLast(s, pat) ==
    LET hits == {i \in 1..Len(s) : StartsWithAt(s, pat, i)}
    IN  IF hits = {} THEN 0 ELSE CHOOSE i \in hits : \A j \in hits : i >= j

\* str::find: the 1-based position of the first occurrence of pat, 0 for None
Find(s, pat) ==
    LET hits == {i \in 1..Len(s) : StartsWithAt(s, pat, i)}
    IN  IF hits = {} THEN 0 ELSE CHOOSE i \in hits : \A j \in hits : i <= j

\* String::split_off(at): the tail from byte offset at (0-based) on
SplitOff(s, at) == SubSeq(s, at + 1, Len(s))

\* str::replace: every non-overlapping match, left to right (from is never empty here)
RECURSIVE Replace(_, _, _)
Replace(s, from, to) ==
    IF Len(s) < Len(from) THEN s
    ELSE IF StartsWithAt(s, from, 1)
         THEN to \o Replace(SubSeq(s, Len(from) + 1, Len(s)), from, to)
         ELSE <<Head(s)>> \o Replace(Tail(s), from, to)

---------------------------------------------------------------------------
(* Results and errors of the resolver.                                     *)

NoResult == [tag |-> "none"]
Ok(v) == [tag |-> "Ok", value |-> v]
Err(e) == [tag |-> "Err", err |-> e]

InvalidEnvSyntax == [e |-> "InvalidEnvSyntax"]
EnvVarNotFound(name) == [e |-> "EnvVarNotFound", env_name |-> name]

---------------------------------------------------------------------------
(* serde_yml::Value, the generic document node.                            *)

\* serde_yml::Number: PosInt(u64), NegInt(i64) or Float(f64); a float is kept
\* as the number of its halves (1.5 is 3), enough to tell 1.0 from 1 and 1.5
PosInt(n) == [repr |-> "PosInt", n |-> n]
NegInt(n) == [repr |-> "NegInt", n |-> n]
Float(halves) == [repr |-> "Float", n |-> halves]

YNull == [kind |-> "Null"]
YBool(b) == [kind |-> "Bool", b |-> b]
YNumber(n) == [kind |-> "Number", n |-> n]
YString(s) == [kind |-> "String", s |-> s]
YSequence(items) == [kind |-> "Sequence", items |-> items]
\* a Mapping is an insertion-ordered list of <<key, value>> with distinct keys
YMapping(entries) == [kind |-> "Mapping", entries |-> entries]
YTagged(t, v) == [kind |-> "Tagged", t |-> t, inner |-> v]

\* an insert that puts a new key in front of the older ones
MappingInsertFront(entries, key, value) == <<<<key, value>>>> \o entries

\* Mapping::insert: replaces the value of an existing key in place, else appends
MappingInsert(entries, key, value) ==
    IF \E i \in 1..Len(entries) : entries[i][1] = key
    THEN [i \in 1..Len(entries) |->
            IF entries[i][1] = key THEN <<key, value>> ELSE entries[i]]
    ELSE Append(entries, <<key, value>>)

---------------------------------------------------------------------------
(* EnvReplacer::find_env                                                   *)

FoundNone == [tag |-> "None"]
FoundSome(name) == [tag |-> "Some", name |-> name]
FoundErr == [tag |-> "Err"]

\* the name taken up to the last ')' of the string instead of the next one
ScanNameGreedy(rest, env_name) ==
    LET closes == {i \in 1..Len(rest) : rest[i] = CloseParen}
    IN  IF closes = {} THEN FoundErr
        ELSE FoundSome(env_name \o
                SubSeq(rest, 1, (CHOOSE i \in closes : \A j \in closes : i >= j) - 1))

\* for ch in s.chars() { if ch == ')' { return Ok(Some(env_name)) } env_name.push(ch) }
RECURSIVE ScanName(_, _)
ScanName(rest, env_name) ==
    IF rest = <<>> THEN FoundErr
    ELSE IF Head(rest) = CloseParen THEN FoundSome(env_name)
         ELSE ScanName(Tail(rest), Append(env_name, Head(rest)))

find_env(s) ==
    LET index == Find(s, ENV_SYMBOL)
    IN  IF index = 0 THEN FoundNone
        ELSE ScanName(SplitOff(s, (index - 1) + Len(ENV_SYMBOL)), <<>>)

\* format!("env!({})", env_name)
FormatOld(env_name) == ENV_SYMBOL \o env_name \o <<CloseParen>>

\* self.envs.get(&env_name): the snapshot, never the live environment
LookupLive(env_name) == IF env_name \in DOMAIN env THEN <<env[env_name]>> ELSE <<>>
Lookup(env_name) == IF env_name \in DOMAIN envs THEN <<envs[env_name]>> ELSE <<>>

---------------------------------------------------------------------------
(* The call stack of the walk.  Every call of replace_value, replace_string,*)
(* replace_sequence and replace_mapping is a frame; `waiting` says that    *)
(* the frame has called a callee and is suspended until it returns.        *)

FValue(v, w) == [fn |-> "replace_value", value |-> v, waiting |-> w]
FString(s, w) == [fn |-> "replace_string", s |-> s, waiting |-> w]
FSequence(vec, new_vec, w) ==
    [fn |-> "replace_sequence", vec |-> vec, new_vec |-> new_vec, waiting |-> w]
FMapping(map, key, new_map, w) ==
    [fn |-> "replace_mapping", map |-> map, key |-> key, new_map |-> new_map,
     waiting |-> w]

Top == stack[Len(stack)]
Pop == SubSeq(stack, 1, Len(stack) - 1)
\* a call that leaves the caller's frame as it was and adds a suspended copy of it
PushCallKeep(suspended, callee) == Append(Append(stack, suspended), callee)

\* the top frame suspends and calls callee
PushCall(suspended, callee) == Append(Append(Pop, suspended), callee)

Running(fn) ==
    /\ pc = "running"
    /\ stack # <<>>
    /\ Top.fn = fn

AtEntry(fn) == Running(fn) /\ ~Top.waiting /\ ret = NoResult
\* a call needs one more frame
HasRoom == Len(stack) < StackLimit

(* recursive_replace_env: envs = std::env::vars().collect(), then the walk *)
Snapshot == env

Call ==
    /\ pc = "idle"
    /\ pc' = "running"
    /\ envs' = Snapshot
    /\ stack' = <<FValue(input, FALSE)>>
    /\ UNCHANGED <<env, input, ret, scanned, changes, parserVars>>

(* replace_value: Null, Bool, Number and Tagged are returned as they are *)
ReplaceValueLeaf ==
    /\ AtEntry("replace_value")
    /\ Top.value.kind \in {"Null", "Bool", "Number", "Tagged"}
    /\ ret' = Ok(Top.value)
    /\ stack' = Pop
    /\ UNCHANGED <<env, pc, input, envs, scanned, changes, parserVars>>

(* replace_value: String(s) => self.replace_string(s) *)
ReplaceValueString ==
    /\ AtEntry("replace_value")
    /\ Top.value.kind = "String"
    /\ HasRoom
    /\ stack' = PushCall(FValue(Top.value, TRUE), FString(Top.value.s, FALSE))
    /\ scanned' = Append(scanned, Top.value.s)
    /\ UNCHANGED <<env, pc, input, envs, ret, changes, parserVars>>

(* replace_value: Sequence(vec) => self.replace_sequence(vec) *)
ReplaceValueSequence ==
    /\ AtEntry("replace_value")
    /\ Top.value.kind = "Sequence"
    /\ HasRoom
    /\ stack' = PushCall(FValue(Top.value, TRUE),
                         FSequence(Top.value.items, <<>>, FALSE))
    /\ UNCHANGED <<env, pc, input, envs, ret, scanned, changes, parserVars>>

(* replace_value: Mapping(map) => self.replace_mapping(map) *)
ReplaceValueMapping ==
    /\ AtEntry("replace_value")
    /\ Top.value.kind = "Mapping"
    /\ HasRoom
    /\ stack' = PushCall(FValue(Top.value, TRUE),
                         FMapping(Top.value.entries, YNull, <<>>, FALSE))
    /\ UNCHANGED <<env, pc, input, envs, ret, scanned, changes, parserVars>>

(* replace_string: find_env(s)? fails with InvalidEnvSyntax *)
ReplaceStringSyntax ==
    /\ AtEntry("replace_string")
    /\ find_env(Top.s).tag = "Err"
    /\ ret' = Err(InvalidEnvSyntax)
    /\ stack' = Pop
    /\ UNCHANGED <<env, pc, input, envs, scanned, changes, parserVars>>

(* replace_string: None => return Ok(Value::String(s)) *)
ReplaceStringDone ==
    /\ AtEntry("replace_string")
    /\ find_env(Top.s).tag = "None"
    /\ ret' = Ok(YString(Top.s))
    /\ stack' = Pop
    /\ UNCHANGED <<env, pc, input, envs, scanned, changes, parserVars>>

(* replace_string: self.envs.get(&env_name).ok_or(EnvVarNotFound { env_name })? *)
ReplaceStringNotFound ==
    /\ AtEntry("replace_string")
    /\ find_env(Top.s).tag = "Some"
    /\ Lookup(find_env(Top.s).name) = <<>>
    /\ ret' = Err(EnvVarNotFound(find_env(Top.s).name))
    /\ stack' = Pop
    /\ UNCHANGED <<env, pc, input, envs, scanned, changes, parserVars>>

\* let value = s.replace(old.as_str(), new);
Substitute(s, env_name, new) == Replace(s, FormatOld(env_name), new)

(* replace_string that returns Ok(Value::String(value)) without scanning value again *)
ReplaceStringSubstNoRescan ==
    /\ AtEntry("replace_string")
    /\ find_env(Top.s).tag = "Some"
    /\ Lookup(find_env(Top.s).name) # <<>>
    /\ LET env_name == find_env(Top.s).name
           new == Lookup(env_name)[1]
       IN  ret' = Ok(YString(Substitute(Top.s, env_name, new)))
    /\ stack' = Pop
    /\ UNCHANGED <<env, pc, input, envs, scanned, changes, parserVars>>

(* replace_string: Some(env_name), found => self.replace_string(value) *)
ReplaceStringSubst ==
    /\ AtEntry("replace_string")
    /\ find_env(Top.s).tag = "Some"
    /\ Lookup(find_env(Top.s).name) # <<>>
    /\ HasRoom
    /\ LET env_name == find_env(Top.s).name
           new == Lookup(env_name)[1]
       IN  stack' = PushCall(FString(Top.s, TRUE),
                             FString(Substitute(Top.s, env_name, new), FALSE))
    /\ UNCHANGED <<env, pc, input, envs, ret, scanned, changes, parserVars>>

(* replace_value and replace_string hand their callee's Result to their caller *)
ReturnThrough ==
    /\ pc = "running"
    /\ stack # <<>>
    /\ Top.fn \in {"replace_value", "replace_string"}
    /\ Top.waiting
    /\ ret # NoResult
    /\ stack' = Pop
    /\ UNCHANGED <<env, pc, input, envs, ret, scanned, changes, parserVars>>

(* replace_sequence: for value in vec { let new_value = self.replace_value(value)? *)
SequenceNext ==
    /\ AtEntry("replace_sequence")
    /\ Top.vec # <<>>
    /\ HasRoom
    /\ stack' = PushCall(FSequence(Tail(Top.vec), Top.new_vec, TRUE),
                         FValue(Head(Top.vec), FALSE))
    /\ UNCHANGED <<env, pc, input, envs, ret, scanned, changes, parserVars>>

(* replace_sequence: new_vec.push(new_value) *)
SequencePush ==
    /\ Running("replace_sequence")
    /\ Top.waiting
    /\ ret.tag = "Ok"
    /\ stack' = Append(Pop, FSequence(Top.vec, Append(Top.new_vec, ret.value), FALSE))
    /\ ret' = NoResult
    /\ UNCHANGED <<env, pc, input, envs, scanned, changes, parserVars>>

(* replace_sequence: Ok(Value::Sequence(new_vec)) *)
SequenceDone ==
    /\ AtEntry("replace_sequence")
    /\ Top.vec = <<>>
    /\ ret' = Ok(YSequence(Top.new_vec))
    /\ stack' = Pop
    /\ UNCHANGED <<env, pc, input, envs, scanned, changes, parserVars>>

(* replace_mapping: for (key, value) in map { let new_value = self.replace_value(value)? *)
MappingNext ==
    /\ AtEntry("replace_mapping")
    /\ Top.map # <<>>
    /\ HasRoom
    /\ stack' = PushCall(FMapping(Tail(Top.map), Head(Top.map)[1], Top.new_map, TRUE),
                         FValue(Head(Top.map)[2], FALSE))
    /\ UNCHANGED <<env, pc, input, envs, ret, scanned, changes, parserVars>>

(* replace_mapping: new_map.insert(key, new_value) *)
MappingPush ==
    /\ Running("replace_mapping")
    /\ Top.waiting
    /\ ret.tag = "Ok"
    /\ stack' = Append(Pop, FMapping(Top.map, YNull,
                                     MappingInsert(Top.new_map, Top.key, ret.value),
                                     FALSE))
    /\ ret' = NoResult
    /\ UNCHANGED <<env, pc, input, envs, scanned, changes, parserVars>>

(* replace_mapping: Ok(Value::Mapping(new_map)) *)
MappingDone ==
    /\ AtEntry("replace_mapping")
    /\ Top.map = <<>>
    /\ ret' = Ok(YMapping(Top.new_map))
    /\ stack' = Pop
    /\ UNCHANGED <<env, pc, input, envs, scanned, changes, parserVars>>

(* a loop that drops the failed item and goes on with the next one *)
SkipErr ==
    /\ pc = "running"
    /\ stack # <<>>
    /\ Top.fn \in {"replace_sequence", "replace_mapping"}
    /\ Top.waiting
    /\ ret.tag = "Err"
    /\ stack' = Append(Pop, [Top EXCEPT !.waiting = FALSE])
    /\ ret' = NoResult
    /\ UNCHANGED <<env, pc, input, envs, scanned, changes, parserVars>>

(* the `?` of replace_sequence and replace_mapping: an Err leaves the loop at once *)
PropagateErr ==
    /\ pc = "running"
    /\ stack # <<>>
    /\ Top.fn \in {"replace_sequence", "replace_mapping"}
    /\ Top.waiting
    /\ ret.tag = "Err"
    /\ stack' = Pop
    /\ UNCHANGED <<env, pc, input, envs, ret, scanned, changes, parserVars>>

(* recursive_replace_env returns the Result of the outermost replace_value *)
Return ==
    /\ pc = "running"
    /\ stack = <<>>
    /\ ret # NoResult
    /\ pc' = "returned"
    /\ UNCHANGED <<env, input, envs, stack, ret, scanned, changes, parserVars>>

\* the top frame is about to call and so needs one more frame
WouldCall ==
    \/ Top.fn = "replace_value" /\ Top.value.kind \in {"String", "Sequence", "Mapping"}
    \/ Top.fn = "replace_string" /\ find_env(Top.s).tag = "Some"
                                 /\ Lookup(find_env(Top.s).name) # <<>>
    \/ Top.fn = "replace_sequence" /\ Top.vec # <<>>
    \/ Top.fn = "replace_mapping" /\ Top.map # <<>>

(* the call needs a frame the stack no longer has: the process aborts *)
StackOverflow ==
    /\ pc = "running"
    /\ stack # <<>>
    /\ ~Top.waiting
    /\ ret = NoResult
    /\ WouldCall
    /\ ~HasRoom
    /\ pc' = "aborted"
    /\ UNCHANGED <<env, input, envs, stack, ret, scanned, changes, parserVars>>

---------------------------------------------------------------------------
(* Other threads of the process: std::env::set_var and remove_var while a  *)
(* call is running.                                                        *)

NameA == <<"A">>
NameB == <<"B">>
Names == {NameA, NameB}

SetVar(e, n, v) == [m \in DOMAIN e \cup {n} |-> IF m = n THEN v ELSE e[m]]
RemoveVar(e, n) == [m \in DOMAIN e \ {n} |-> e[m]]

ChangedValue == <<"y">>

EnvChange ==
    /\ pc = "running"
    /\ changes < MaxEnvChanges
    /\ \E n \in Names :
          \/ env' = SetVar(env, n, ChangedValue)
          \/ env' = RemoveVar(env, n)
    /\ env' # env
    /\ changes' = changes + 1
    /\ UNCHANGED <<pc, input, envs, stack, ret, scanned, parserVars>>

---------------------------------------------------------------------------
(* Inputs.                                                                 *)

TokA == <<"e", "n", "v", "!", "(", "A", ")">>
TokB == <<"e", "n", "v", "!", "(", "B", ")">>
Plain == <<"x">>
Unclosed == ENV_SYMBOL \o NameB   \* env!(B

\* every partial function from Names with A's value in va and B's value in vb
EnvsOver(va, vb) ==
    {[n \in d |-> IF n = NameA THEN a ELSE b] :
        <<d, a, b>> \in (SUBSET Names) \X va \X vb}

\* string leaves of SpecStr: up to MaxPieces pieces, one after the other
Pieces == {ENV_SYMBOL, TokA, TokB, Plain, <<CloseParen>>, <<"v", "!", "(", "B", ")">>}

RECURSIVE Concats(_)
Concats(n) ==
    IF n = 0 THEN {<<>>}
    ELSE LET shorter == Concats(n - 1)
         IN  shorter \cup {p \o s : p \in Pieces, s \in shorter}

Strs == Concats(MaxPieces)

\* values of SpecStr: plain text, a marker prefix, and values that are placeholders
EnvsStr == EnvsOver({Plain, <<"e", "n">>, TokA, TokB}, {Plain, TokA})

\* documents of Spec
Key1 == YString(<<"k">>)
Key2 == YString(TokA)
Keys == {Key1, Key2}

Inner == {YSequence(<<YString(TokA), YBool(TRUE)>>),
          YSequence(<<YString(TokB), YString(Unclosed)>>),
          YMapping(<< <<Key2, YString(TokB)>>, <<Key1, YNumber(PosInt(1))>> >>)}

Items == {YNull, YTagged(<<"t">>, YString(TokA)), YString(TokA),
          YString(TokB \o <<"/">> \o TokA), YString(Unclosed)} \cup Inner

RECURSIVE Tuples(_, _)
Tuples(S, n) ==
    IF n = 0 THEN {<<>>}
    ELSE LET shorter == Tuples(S, n - 1)
         IN  shorter \cup {<<x>> \o t : x \in S, t \in {u \in shorter : Len(u) = n - 1}}

DistinctKeys(entries) ==
    \A i, j \in 1..Len(entries) : i # j => entries[i][1] # entries[j][1]

Docs ==
    Items
    \cup {YSequence(t) : t \in Tuples(Items, MaxItems)}
    \cup {YMapping(t) : t \in {u \in Tuples(Keys \X Items, MaxItems) : DistinctKeys(u)}}

EnvsDoc == EnvsOver({Plain}, {Plain})

---------------------------------------------------------------------------
(* Specifications of the resolver.                                         *)

NoEntry == [k \in {} |-> YNull]

ResolverIdle ==
    /\ pc = "idle"
    /\ envs = [n \in {} |-> <<>>]
    /\ stack = <<>>
    /\ ret = NoResult
    /\ scanned = <<>>
    /\ changes = 0

ParserIdle ==
    /\ entry = NoEntry
    /\ mode = "idle"
    /\ parsed = NoResult

Init ==
    /\ input \in Docs
    /\ env \in EnvsDoc
    /\ ResolverIdle
    /\ ParserIdle

Walk ==
    \/ Call
    \/ ReplaceValueLeaf
    \/ ReplaceValueString
    \/ ReplaceValueSequence
    \/ ReplaceValueMapping
    \/ ReplaceStringSyntax
    \/ ReplaceStringDone
    \/ ReplaceStringNotFound
    \/ ReplaceStringSubst
    \/ ReturnThrough
    \/ SequenceNext
    \/ SequencePush
    \/ SequenceDone
    \/ MappingNext
    \/ MappingPush
    \/ MappingDone
    \/ PropagateErr
    \/ Return

Next == Walk \/ EnvChange

Spec == Init /\ [][Next]_vars

\* one string leaf, rich in placeholders, resolved against a fixed environment
InitStr ==
    /\ input \in {YString(s) : s \in Strs}
    /\ env \in EnvsStr
    /\ ResolverIdle
    /\ ParserIdle

NextStr ==
    \/ Call
    \/ ReplaceValueString
    \/ ReplaceStringSyntax
    \/ ReplaceStringDone
    \/ ReplaceStringNotFound
    \/ ReplaceStringSubst
    \/ ReturnThrough
    \/ Return
    \/ StackOverflow

SpecStr == InitStr /\ [][NextStr]_vars

---------------------------------------------------------------------------
(* config::value: the typed-value parser.  A tagged entry is a             *)
(* serde_yml::Mapping, so a list of <<key, value>>; the parser only        *)
(* compares whole strings, which are atoms here ("type", "object", ...).   *)

U64_MAX == 2 ^ IntBits - 1
I64_MAX == 2 ^ (IntBits - 1) - 1
I64_MIN == -(2 ^ (IntBits - 1))

\* enum Value
VArray(items) == [v |-> "Array", items |-> items]
VObject(object) == [v |-> "Object", object |-> object]
VString(s) == [v |-> "String", s |-> s]
VBool(b) == [v |-> "Bool", b |-> b]
VFloat(f) == [v |-> "Float", f |-> f]
VInteger(n) == [v |-> "Integer", n |-> n]
VNull == [v |-> "Null"]
VSource(src) == [v |-> "Source", source |-> src]

\* enum ParseEntryError
MissingField(field) == [e |-> "MissingField", field |-> field]
InvalidType == [e |-> "InvalidType"]
InvalidValue == [e |-> "InvalidValue"]
InvalidItems == [e |-> "InvalidItems"]
InvalidProperties == [e |-> "InvalidProperties"]
InvalidSource == [e |-> "InvalidSource"]
InvalidSourceValue(got) == [e |-> "InvalidSourceValue", got |-> got]
InvalidTypeValue(got) == [e |-> "InvalidTypeValue", got |-> got]

TYPE_TAG == "type"
PROPERTIES_TAG == "properties"
ITEMS_TAG == "items"
VALUE_TAG == "value"
SOURCE_TAG == "source"

\* Mapping::get(&Value::String(tag)): <<value>> when the key is there, else <<>>
MappingGet(entries, tag) ==
    LET at == {i \in 1..Len(entries) : entries[i][1] = YString(tag)}
    IN  IF at = {} THEN <<>> ELSE <<entries[CHOOSE i \in at : TRUE][2]>>

\* Number::as_i64 with the sign bit cut off instead of checked (n as i64)
as_i64_wrapping(num) ==
    CASE num.repr = "PosInt" ->
            <<IF num.n <= I64_MAX THEN num.n ELSE num.n - 2 ^ IntBits>>
      [] num.repr = "NegInt" -> <<num.n>>
      [] OTHER -> <<>>

\* Number::as_i64
as_i64(num) ==
    CASE num.repr = "PosInt" -> IF num.n <= I64_MAX THEN <<num.n>> ELSE <<>>
      [] num.repr = "NegInt" -> <<num.n>>
      [] OTHER -> <<>>

\* Number::as_f64, in halves
as_f64(num) == IF num.repr = "Float" THEN <<num.n>> ELSE <<2 * num.n>>

\* get_type that reports a `type` of the wrong shape as a missing field
get_type_shapeless(ent) ==
    LET entry_type == MappingGet(ent, TYPE_TAG)
    IN  IF entry_type = <<>> \/ entry_type[1].kind # "String"
        THEN Err(MissingField(TYPE_TAG))
        ELSE Ok(entry_type[1].s)

get_type(ent) ==
    LET entry_type == MappingGet(ent, TYPE_TAG)
    IN  IF entry_type = <<>> THEN Err(MissingField(TYPE_TAG))
        ELSE IF entry_type[1].kind # "String" THEN Err(InvalidType)
             ELSE Ok(entry_type[1].s)

get_items(ent) ==
    LET items == MappingGet(ent, ITEMS_TAG)
    IN  IF items = <<>> THEN Err(MissingField(ITEMS_TAG))
        ELSE IF items[1].kind # "Sequence" THEN Err(InvalidItems)
             ELSE Ok(items[1].items)

get_properties(ent) ==
    LET properties_tag_value == MappingGet(ent, PROPERTIES_TAG)
    IN  IF properties_tag_value = <<>> THEN Err(MissingField(PROPERTIES_TAG))
        ELSE IF properties_tag_value[1].kind # "Mapping" THEN Err(InvalidProperties)
             ELSE Ok(properties_tag_value[1].entries)

get_value(ent) ==
    LET value == MappingGet(ent, VALUE_TAG)
    IN  IF value = <<>> THEN Err(MissingField(VALUE_TAG)) ELSE Ok(value[1])

get_bool(ent) ==
    LET value == get_value(ent)
    IN  IF value.tag = "Err" THEN value
        ELSE IF value.value.kind # "Bool" THEN Err(InvalidValue)
             ELSE Ok(VBool(value.value.b))

get_float(ent) ==
    LET value == get_value(ent)
    IN  IF value.tag = "Err" THEN value
        ELSE IF value.value.kind # "Number" THEN Err(InvalidValue)
             ELSE IF as_f64(value.value.n) = <<>> THEN Err(InvalidValue)
                  ELSE Ok(VFloat(as_f64(value.value.n)[1]))

get_integer(ent) ==
    LET value == get_value(ent)
    IN  IF value.tag = "Err" THEN value
        ELSE IF value.value.kind # "Number" THEN Err(InvalidValue)
             ELSE IF as_i64(value.value.n) = <<>> THEN Err(InvalidValue)
                  ELSE Ok(VInteger(as_i64(value.value.n)[1]))

get_string(ent) ==
    LET value == get_value(ent)
    IN  IF value.tag = "Err" THEN value
        ELSE IF value.value.kind # "String" THEN Err(InvalidValue)
             ELSE Ok(VString(value.value.s))

get_source(ent) ==
    LET source == MappingGet(ent, SOURCE_TAG)
    IN  IF source = <<>> THEN Err(MissingField(SOURCE_TAG))
        ELSE IF source[1].kind # "String" THEN Err(InvalidSource)
             ELSE CASE source[1].s = "last_execute_time" -> Ok(VSource("LastExecuteDate"))
                    [] source[1].s = "execute_time" -> Ok(VSource("ExecuteDate"))
                    [] OTHER -> Err(InvalidSourceValue(source[1].s))

\* an insert that keeps a map of one key as it is: later keys are lost
HashMapInsertOnce(map, key, value) ==
    IF DOMAIN map # {} THEN map ELSE [k \in {key} |-> value]

\* HashMap::insert
HashMapInsert(map, key, value) ==
    [k \in DOMAIN map \cup {key} |-> IF k = key THEN value ELSE map[k]]

EmptyHashMap == [k \in {} |-> VNull]

RECURSIVE from_entry(_)
RECURSIVE parse_entry_by_type(_, _)
RECURSIVE ObjectLoop(_, _)
RECURSIVE ArrayLoop(_, _)

\* get_object: for (key, value) in properties { ... object.insert(key, json_value) }
ObjectLoop(properties, object) ==
    IF properties = <<>> THEN Ok(VObject(object))
    ELSE LET key == Head(properties)[1]
             value == Head(properties)[2]
         IN  IF key.kind # "String" THEN Err(InvalidProperties)
             ELSE IF value.kind # "Mapping" THEN Err(InvalidProperties)
                  ELSE LET json_value == from_entry(value.entries)
                       IN  IF json_value.tag = "Err" THEN json_value
                           ELSE ObjectLoop(Tail(properties),
                                           HashMapInsert(object, key.s, json_value.value))

get_object(ent) ==
    LET properties == get_properties(ent)
    IN  IF properties.tag = "Err" THEN properties
        ELSE ObjectLoop(properties.value, EmptyHashMap)

\* a loop that goes on to the next item when one fails to parse
ArrayLoopSkipErr(items, array) ==
    IF items = <<>> THEN Ok(VArray(array))
    ELSE LET value == Head(items)
         IN  IF value.kind # "Mapping" THEN Err(InvalidItems)
             ELSE LET json_value == from_entry(value.entries)
                  IN  IF json_value.tag = "Err" THEN ArrayLoop(Tail(items), array)
                      ELSE ArrayLoop(Tail(items), Append(array, json_value.value))

\* get_array: for value in items { ... array.push(json_value) }
ArrayLoop(items, array) ==
    IF items = <<>> THEN Ok(VArray(array))
    ELSE LET value == Head(items)
         IN  IF value.kind # "Mapping" THEN Err(InvalidItems)
             ELSE LET json_value == from_entry(value.entries)
                  IN  IF json_value.tag = "Err" THEN json_value
                      ELSE ArrayLoop(Tail(items), Append(array, json_value.value))

get_array(ent) ==
    LET items == get_items(ent)
    IN  IF items.tag = "Err" THEN items
        ELSE ArrayLoop(items.value, <<>>)

parse_entry_by_type(entry_type, ent) ==
    CASE entry_type = "object" -> get_object(ent)
      [] entry_type = "array" -> get_array(ent)
      [] entry_type = "source" -> get_source(ent)
      [] entry_type = "integer" -> get_integer(ent)
      [] entry_type = "float" -> get_float(ent)
      [] entry_type = "string" -> get_string(ent)
      [] entry_type = "boolean" -> get_bool(ent)
      [] entry_type = "null" -> Ok(VNull)
      [] OTHER -> Err(InvalidTypeValue(entry_type))

\* a restricted dispatch without the float branch
parse_basic_entry_no_float(entry_type, ent) ==
    CASE entry_type = "source" -> get_source(ent)
      [] entry_type = "integer" -> get_integer(ent)
      [] entry_type = "string" -> get_string(ent)
      [] OTHER -> Err(InvalidTypeValue(entry_type))

\* a restricted dispatch that lets the full one decide what it does not know
parse_basic_entry_falls_back(entry_type, ent) ==
    CASE entry_type = "source" -> get_source(ent)
      [] entry_type = "integer" -> get_integer(ent)
      [] entry_type = "float" -> get_float(ent)
      [] entry_type = "string" -> get_string(ent)
      [] OTHER -> parse_entry_by_type(entry_type, ent)

parse_basic_entry_by_type(entry_type, ent) ==
    CASE entry_type = "source" -> get_source(ent)
      [] entry_type = "integer" -> get_integer(ent)
      [] entry_type = "float" -> get_float(ent)
      [] entry_type = "string" -> get_string(ent)
      [] OTHER -> Err(InvalidTypeValue(entry_type))

from_entry(ent) ==
    LET entry_type == get_type(ent)
    IN  IF entry_type.tag = "Err" THEN entry_type
        ELSE parse_entry_by_type(entry_type.value, ent)

from_basic_entry(ent) ==
    LET entry_type == get_type(ent)
    IN  IF entry_type.tag = "Err" THEN entry_type
        ELSE parse_basic_entry_by_type(entry_type.value, ent)

(* config::http: HeadersVisitor::visit_map *)

\* ParseEntryError::to_de_error: the serde error made from a parser error
to_de_error(err) == [e |-> "de::Error", from |-> err]
\* map.next_entry::<(String, Mapping)>()? on a pair that is not (string, mapping)
NextEntryError == [e |-> "de::Error", from |-> [e |-> "invalid type"]]

Headers(headers) == [headers |-> headers]

RECURSIVE VisitLoop(_, _)
VisitLoop(map, headers) ==
    IF map = <<>> THEN Ok(Headers(headers))
    ELSE LET key == Head(map)[1]
             ent == Head(map)[2]
         IN  IF key.kind # "String" \/ ent.kind # "Mapping" THEN Err(NextEntryError)
             ELSE LET value == from_basic_entry(ent.entries)
                  IN  IF value.tag = "Err" THEN Err(to_de_error(value.err))
                      ELSE VisitLoop(Tail(map), HashMapInsert(headers, key.s, value.value))

visit_map(map) == VisitLoop(map, EmptyHashMap)

---------------------------------------------------------------------------
(* Inputs and specification of the parser.                                 *)

FullTypes == {"object", "array", "source", "integer", "float", "string", "boolean", "null"}
BasicTypes == {"source", "integer", "float", "string"}

Opt(S) == {<<>>} \cup {<<x>> : x \in S}
Field(tag, opt) == IF opt = <<>> THEN <<>> ELSE <<<<YString(tag), opt[1]>>>>
MkEntry(ty, va, it, pr, so) ==
    Field(TYPE_TAG, ty) \o Field(VALUE_TAG, va) \o Field(ITEMS_TAG, it)
        \o Field(PROPERTIES_TAG, pr) \o Field(SOURCE_TAG, so)

Text == YString("s")

TypeValues == {YNumber(PosInt(1))} \cup {YString(ty) : ty \in FullTypes \cup {"unsupported"}}

Numbers == {PosInt(0), PosInt(I64_MAX), PosInt(I64_MAX + 1), PosInt(U64_MAX),
            NegInt(-1), NegInt(I64_MIN), Float(2), Float(3)}

ValueValues == {Text, YBool(TRUE), YNull} \cup {YNumber(n) : n \in Numbers}

SourceValues == {YString("execute_time"), YString("last_execute_time"),
                 YString("tomorrow"), YNull}

\* entries with every combination of discriminator and companion fields
FlatEntries ==
    {MkEntry(ty, va, it, pr, so) :
        <<ty, va, it, pr, so>> \in
            Opt(TypeValues) \X Opt(ValueValues) \X Opt({Text, YSequence(<<>>)})
                \X Opt({Text, YMapping(<<>>)}) \X Opt(SourceValues)}

\* what an array or an object may hold: entries that parse, entries that fail, an
\* array and an object one level down, an array whose item fails, and a node that
\* is no mapping
Nested ==
    {YMapping(MkEntry(<<YString("boolean")>>, <<YBool(TRUE)>>, <<>>, <<>>, <<>>)),
     YMapping(MkEntry(<<YString("source")>>, <<>>, <<>>, <<>>, <<YString("execute_time")>>)),
     YMapping(MkEntry(<<YString("integer")>>, <<Text>>, <<>>, <<>>, <<>>)),
     YMapping(MkEntry(<<YString("null")>>, <<>>, <<>>, <<>>, <<>>)),
     YMapping(MkEntry(<<YString("array")>>, <<>>,
                      <<YSequence(<<YMapping(MkEntry(<<YString("string")>>, <<Text>>,
                                                     <<>>, <<>>, <<>>))>>)>>,
                      <<>>, <<>>)),
     YMapping(MkEntry(<<YString("object")>>, <<>>, <<>>,
                      <<YMapping(<< <<YString("c"),
                                      YMapping(MkEntry(<<YString("boolean")>>, <<YBool(FALSE)>>,
                                                       <<>>, <<>>, <<>>))>> >>)>>,
                      <<>>)),
     YMapping(MkEntry(<<YString("array")>>, <<>>,
                      <<YSequence(<<YMapping(MkEntry(<<YString("boolean")>>, <<>>,
                                                     <<>>, <<>>, <<>>))>>)>>,
                      <<>>, <<>>)),
     YMapping(MkEntry(<<YString("unsupported")>>, <<>>, <<>>, <<>>, <<>>)),
     Text}

\* keys of `properties`: strings, and a number, which YAML allows as a key
PropertyKeys == {YString("a"), YString("b"), YNumber(PosInt(1))}

NestedEntries ==
    {MkEntry(<<YString("array")>>, <<>>, <<YSequence(items)>>, <<>>, <<>>) :
        items \in Tuples(Nested, MaxItems)}
    \cup
    {MkEntry(<<YString("object")>>, <<>>, <<>>, <<YMapping(properties)>>, <<>>) :
        properties \in {u \in Tuples(PropertyKeys \X Nested, MaxItems) : DistinctKeys(u)}}

\* what a headers mapping may hold under a header name
HeaderEntries ==
    {YMapping(MkEntry(<<YString("string")>>, <<Text>>, <<>>, <<>>, <<>>)),
     YMapping(MkEntry(<<YString("integer")>>, <<YNumber(PosInt(1))>>, <<>>, <<>>, <<>>)),
     YMapping(MkEntry(<<YString("float")>>, <<YNumber(Float(3))>>, <<>>, <<>>, <<>>)),
     YMapping(MkEntry(<<YString("source")>>, <<>>, <<>>, <<>>, <<YString("last_execute_time")>>)),
     YMapping(MkEntry(<<YString("boolean")>>, <<YBool(TRUE)>>, <<>>, <<>>, <<>>)),
     YMapping(MkEntry(<<YString("object")>>, <<>>, <<>>, <<YMapping(<<>>)>>, <<>>)),
     YMapping(MkEntry(<<YString("null")>>, <<>>, <<>>, <<>>, <<>>)),
     Text}

HeaderNames == {YString("h1"), YString("h2")}

HeaderMaps ==
    {u \in Tuples(HeaderNames \X HeaderEntries, MaxItems) : DistinctKeys(u)}

InitValue ==
    /\ entry \in FlatEntries \cup NestedEntries \cup HeaderMaps
    /\ mode = "idle"
    /\ parsed = NoResult
    /\ input = YNull
    /\ env = [n \in {} |-> <<>>]
    /\ ResolverIdle

(* Value::from_entry(&entry) *)
FromEntry ==
    /\ mode = "idle"
    /\ mode' = "full"
    /\ parsed' = from_entry(entry)
    /\ UNCHANGED <<entry, resolverVars>>

(* Value::from_basic_entry(&entry) *)
FromBasicEntry ==
    /\ mode = "idle"
    /\ mode' = "basic"
    /\ parsed' = from_basic_entry(entry)
    /\ UNCHANGED <<entry, resolverVars>>

(* HeadersVisitor::visit_map over the pairs of the mapping *)
VisitMap ==
    /\ mode = "idle"
    /\ mode' = "headers"
    /\ parsed' = visit_map(entry)
    /\ UNCHANGED <<entry, resolverVars>>

NextValue == FromEntry \/ FromBasicEntry \/ VisitMap

SpecValue == InitValue /\ [][NextValue]_vars

---------------------------------------------------------------------------
(* Vocabulary of the properties, defined on positions and not through the  *)
(* scanning code.                                                          *)

MarkerAt(s, i) == StartsWithAt(s, ENV_SYMBOL, i)
HasMarker(s) == \E i \in 1..Len(s) : MarkerAt(s, i)
\* the position of the leftmost marker of a string that has one
Leftmost(s) == CHOOSE i \in 1..Len(s) : MarkerAt(s, i) /\ \A j \in 1..(i - 1) : ~MarkerAt(s, j)
\* the positions of the ')' after the marker at i
ClosesAfter(s, i) == {j \in (i + Len(ENV_SYMBOL))..Len(s) : s[j] = CloseParen}
NextClose(s, i) == CHOOSE j \in ClosesAfter(s, i) : \A k \in ClosesAfter(s, i) : j <= k
NameAt(s, i) == SubSeq(s, i + Len(ENV_SYMBOL), NextClose(s, i) - 1)

Range(f) == {f[x] : x \in DOMAIN f}
CountOf(s, ch) == Cardinality({i \in 1..Len(s) : s[i] = ch})

\* the string leaves of a document in document order: sequence items and
\* mapping values depth first; keys and tagged nodes are not leaves
RECURSIVE Leaves(_)
RECURSIVE LeavesOfAll(_)
Leaves(v) ==
    CASE v.kind = "String" -> <<v.s>>
      [] v.kind = "Sequence" -> LeavesOfAll(v.items)
      [] v.kind = "Mapping" -> LeavesOfAll([i \in 1..Len(v.entries) |-> v.entries[i][2]])
      [] OTHER -> <<>>
LeavesOfAll(vs) == IF vs = <<>> THEN <<>> ELSE Leaves(Head(vs)) \o LeavesOfAll(Tail(vs))

\* the frames of replace_string on the stack (the recursion on the current leaf)
StringFrames == {i \in 1..Len(stack) : stack[i].fn = "replace_string"}

\* one pass, left to right: each env!(NAME) span gives way to the value of NAME;
\* "bad" when a marker is not closed or its name is not a variable of e
RECURSIVE SinglePass(_, _)
SinglePass(s, e) ==
    IF ~HasMarker(s) THEN <<s>>
    ELSE LET i == Leftmost(s)
         IN  IF ClosesAfter(s, i) = {} \/ NameAt(s, i) \notin DOMAIN e THEN <<>>
             ELSE LET rest == SinglePass(SubSeq(s, NextClose(s, i) + 1, Len(s)), e)
                  IN  IF rest = <<>> THEN <<>>
                      ELSE <<SubSeq(s, 1, i - 1) \o e[NameAt(s, i)] \o rest[1]>>

---------------------------------------------------------------------------
(* C1: whenever the resolver returns Ok(document), no string leaf of the   *)
(* returned document, at any depth, contains the marker env!(              *)
C1_NoResidualMarker ==
    (pc = "returned" /\ ret.tag = "Ok") =>
        \A i \in 1..Len(Leaves(ret.value)) : ~HasMarker(Leaves(ret.value)[i])

\* a document with a placeholder two levels down was resolved
C1_Witness ==
    /\ pc = "returned"
    /\ ret.tag = "Ok"
    /\ input.kind = "Sequence"
    /\ \E i \in 1..Len(input.items) :
          /\ input.items[i].kind \in {"Sequence", "Mapping"}
          /\ \E k \in 1..Len(Leaves(input.items[i])) : HasMarker(Leaves(input.items[i])[k])
    /\ \E i \in 1..Len(input.items) :
          input.items[i].kind = "String" /\ CountOf(input.items[i].s, "(") > 1

(* C2 as stated: resolution of a string leaf always returns, whatever the  *)
(* snapshot holds: the stack is never exhausted, and no call of            *)
(* replace_string is made with the string an enclosing call already had    *)
(* (the function is deterministic, so such a call recurs for ever).        *)
C2_AlwaysTerminates ==
    /\ pc # "aborted"
    /\ \A i, j \in StringFrames : i # j => stack[i].s # stack[j].s

(* Where resolution does return: when no value of the snapshot contains   *)
(* `(`, a string leaf is resolved after at most as many substitutions as   *)
(* it has `(` characters, since every substitution removes at least one.   *)
NoParenValues == \A v \in Range(envs) : CountOf(v, "(") = 0

TerminatesWithoutParen ==
    (pc # "idle" /\ NoParenValues) =>
        /\ pc # "aborted"
        /\ \A i \in StringFrames : \A j \in StringFrames :
              i < j => CountOf(stack[j].s, "(") < CountOf(stack[i].s, "(")
        /\ Cardinality(StringFrames) <= 1 + CountOf(input.s, "(")

\* three substitutions were made on one leaf, the last through a marker that
\* a value completed, and the scan that follows finds no marker
TerminatesWithoutParenReached ==
    /\ NoParenValues
    /\ Cardinality(StringFrames) = 4
    /\ AtEntry("replace_string")
    /\ ~HasMarker(Top.s)

(* C3 as stated: when every placeholder of a string leaf is closed and     *)
(* names a variable of the snapshot, and no value contains the marker,     *)
(* replace_string returns the leaf with every env!(NAME) span replaced by  *)
(* the value of NAME and the text around the spans kept.                   *)
NoMarkerValues == \A v \in Range(envs) : ~HasMarker(v)

C3_ReplacesEverySpan ==
    (pc = "returned" /\ NoMarkerValues /\ SinglePass(input.s, envs) # <<>>) =>
        ret = Ok(YString(SinglePass(input.s, envs)[1]))

(* C3 amended: the same, provided the substituted string itself holds no   *)
(* env!( (no value contains the marker and none completes one together     *)
(* with the text next to it): what rescanning finds there is resolved too. *)
C3_ReplacesEverySpanUnlessNewMarker ==
    (/\ pc = "returned"
     /\ SinglePass(input.s, envs) # <<>>
     /\ ~HasMarker(SinglePass(input.s, envs)[1])) =>
        ret = Ok(YString(SinglePass(input.s, envs)[1]))

\* a leaf with the same placeholder twice and another one between text was resolved
C3_Witness ==
    /\ pc = "returned"
    /\ ret.tag = "Ok"
    /\ SinglePass(input.s, envs) # <<>>
    /\ ~HasMarker(SinglePass(input.s, envs)[1])
    /\ \E i, j \in 1..Len(input.s) :
          /\ i < j
          /\ StartsWithAt(input.s, TokA, i)
          /\ StartsWithAt(input.s, TokA, j)
    /\ \E i \in 1..Len(input.s) : StartsWithAt(input.s, TokB, i)

(* C5: at each scan of a string leaf the leftmost marker decides: with no  *)
(* `)` after it the scan ends in InvalidEnvSyntax whatever the environment *)
(* holds; otherwise the text up to the next `)` is the name, and a name    *)
(* absent from the snapshot ends the scan in EnvVarNotFound with that name *)
C5_LeftmostMarkerDecides ==
    [][(AtEntry("replace_string") /\ HasMarker(Top.s)) =>
          LET i == Leftmost(Top.s)
          IN  /\ ClosesAfter(Top.s, i) = {} => ret' = Err(InvalidEnvSyntax)
              /\ (ClosesAfter(Top.s, i) # {} /\ NameAt(Top.s, i) \notin DOMAIN envs) =>
                    ret' = Err(EnvVarNotFound(NameAt(Top.s, i)))
              /\ (ClosesAfter(Top.s, i) # {} /\ NameAt(Top.s, i) \in DOMAIN envs) =>
                    ret' = NoResult]_vars

\* the first scan of a leaf substituted a closed placeholder, and the scan of the
\* new string ended in InvalidEnvSyntax although every variable it names is set
C5_Witness ==
    /\ ret = Err(InvalidEnvSyntax)
    /\ Cardinality(StringFrames) = 1
    /\ Len(stack) = 2
    /\ Top.waiting
    /\ NameB \in DOMAIN envs
    /\ HasMarker(input.s) /\ ClosesAfter(input.s, Leftmost(input.s)) # {}

---------------------------------------------------------------------------
(* What a document resolves to under an environment e, read off the        *)
(* positions of its placeholders (the values of Spec are plain text).      *)

NoError == [e |-> "none"]

\* the error of the first placeholder, left to right, that is not closed or
\* names no variable of e
RECURSIVE FirstBad(_, _)
FirstBad(s, e) ==
    IF ~HasMarker(s) THEN NoError
    ELSE LET i == Leftmost(s)
         IN  IF ClosesAfter(s, i) = {} THEN InvalidEnvSyntax
             ELSE IF NameAt(s, i) \notin DOMAIN e THEN EnvVarNotFound(NameAt(s, i))
                  ELSE FirstBad(SubSeq(s, NextClose(s, i) + 1, Len(s)), e)

FailingLeaves(v, e) == {i \in 1..Len(Leaves(v)) : FirstBad(Leaves(v)[i], e) # NoError}
FirstFailing(v, e) ==
    CHOOSE i \in FailingLeaves(v, e) : \A j \in FailingLeaves(v, e) : i <= j

\* the document with every string leaf substituted, nothing else touched
RECURSIVE Substituted(_, _)
Substituted(v, e) ==
    CASE v.kind = "String" -> YString(SinglePass(v.s, e)[1])
      [] v.kind = "Sequence" ->
            YSequence([i \in 1..Len(v.items) |-> Substituted(v.items[i], e)])
      [] v.kind = "Mapping" ->
            YMapping([i \in 1..Len(v.entries) |->
                        <<v.entries[i][1], Substituted(v.entries[i][2], e)>>])
      [] OTHER -> v

Expected(v, e) ==
    IF FailingLeaves(v, e) = {} THEN Ok(Substituted(v, e))
    ELSE Err(FirstBad(Leaves(v)[FirstFailing(v, e)], e))

\* b is a with nothing changed except string leaves that contain the marker
RECURSIVE SameFrame(_, _)
SameFrame(a, b) ==
    CASE a.kind = "String" ->
            /\ b.kind = "String"
            /\ ~HasMarker(a.s) => b.s = a.s
      [] a.kind = "Sequence" ->
            /\ b.kind = "Sequence"
            /\ Len(b.items) = Len(a.items)
            /\ \A i \in 1..Len(a.items) : SameFrame(a.items[i], b.items[i])
      [] a.kind = "Mapping" ->
            /\ b.kind = "Mapping"
            /\ Len(b.entries) = Len(a.entries)
            /\ \A i \in 1..Len(a.entries) :
                  /\ b.entries[i][1] = a.entries[i][1]
                  /\ SameFrame(a.entries[i][2], b.entries[i][2])
      [] OTHER -> b = a

(* C4: a resolved document differs from its input only in string leaves    *)
(* that contain env!(: null, boolean, numeric and tagged nodes, mapping    *)
(* keys (scanned or not), lengths and orders are kept; so a document with  *)
(* no env!( in any string value comes back equal to the input.             *)
C4_OnlyMarkedLeavesChange ==
    (pc = "returned" /\ ret.tag = "Ok") =>
        /\ SameFrame(input, ret.value)
        /\ (\A i \in 1..Len(Leaves(input)) : ~HasMarker(Leaves(input)[i])) =>
              ret.value = input

\* a mapping with a key that holds a placeholder, a resolved string under it and
\* an untouched tagged node that holds a placeholder too
C4_Witness ==
    /\ pc = "returned"
    /\ ret.tag = "Ok"
    /\ input.kind = "Mapping"
    /\ Len(input.entries) = 2
    /\ input.entries[1][1] = Key2
    /\ input.entries[1][2].kind = "Tagged"
    /\ input.entries[2][2].kind = "String"
    /\ ret.value # input

(* C6: resolution of a document is all-or-nothing and fail-fast: when some *)
(* string leaf fails, the call returns the error of the first failing leaf *)
(* in document order, and the leaves after that one are never scanned.     *)
C6_FirstErrorAborts ==
    (pc = "returned" /\ FailingLeaves(input, envs) # {}) =>
        /\ ret = Err(FirstBad(Leaves(input)[FirstFailing(input, envs)], envs))
        /\ scanned = SubSeq(Leaves(input), 1, FirstFailing(input, envs))

\* two leaves fail with different errors, the first one two levels down after a
\* leaf that resolved, and a leaf after it was left alone
C6_Witness ==
    /\ pc = "returned"
    /\ ret.tag = "Err"
    /\ Cardinality(FailingLeaves(input, envs)) >= 2
    /\ FirstFailing(input, envs) > 1
    /\ input.kind = "Sequence"
    /\ input.items[1].kind = "Sequence"
    /\ FirstFailing(input, envs) <= Len(Leaves(input.items[1]))
    /\ \E i \in FailingLeaves(input, envs) :
          FirstBad(Leaves(input)[i], envs) # ret.err
    /\ Len(scanned) < Len(Leaves(input))

(* C7: one call reads the process environment once, before the walk, and   *)
(* every lookup uses that snapshot: the result is what the document        *)
(* resolves to under the environment of the time of the call, whatever     *)
(* other threads set or remove during the walk.                            *)
C7_SnapshotDecides ==
    /\ (pc # "idle" /\ changes = 0) => envs = env
    /\ pc = "returned" => ret = Expected(input, envs)

\* the variable A was changed or removed during the walk of a document that names
\* it in two leaves, and the call succeeded
C7_Witness ==
    /\ pc = "returned"
    /\ ret.tag = "Ok"
    /\ NameA \in DOMAIN envs
    /\ (NameA \notin DOMAIN env \/ env[NameA] # envs[NameA])
    /\ Cardinality({i \in 1..Len(Leaves(input)) :
                       \E k \in 1..Len(Leaves(input)[i]) :
                           StartsWithAt(Leaves(input)[i], TokA, k)}) >= 2

---------------------------------------------------------------------------
(* Properties of the parser.                                               *)

\* the values an entry holds under a tag, read off the list of pairs
FieldValues(ent, tag) == {ent[i][2] : i \in {j \in 1..Len(ent) : ent[j][1] = YString(tag)}}
HasField(ent, tag) == FieldValues(ent, tag) # {}
TheField(ent, tag) == CHOOSE x \in FieldValues(ent, tag) : TRUE
HasType(ent, ty) == HasField(ent, TYPE_TAG) /\ TheField(ent, TYPE_TAG) = YString(ty)
Vocabulary == IF mode = "full" THEN FullTypes ELSE BasicTypes

(* C8: in both modes the `type` discriminator is checked before any        *)
(* companion field: no `type` gives MissingField("type"), a `type` that is *)
(* no string gives InvalidType, a string outside the mode's vocabulary     *)
(* gives InvalidTypeValue with that string, whatever else the entry holds. *)
C8_TypeCheckedFirst ==
    mode \in {"full", "basic"} =>
        /\ ~HasField(entry, TYPE_TAG) => parsed = Err(MissingField("type"))
        /\ (HasField(entry, TYPE_TAG) /\ TheField(entry, TYPE_TAG).kind # "String") =>
              parsed = Err(InvalidType)
        /\ (/\ HasField(entry, TYPE_TAG)
            /\ TheField(entry, TYPE_TAG).kind = "String"
            /\ TheField(entry, TYPE_TAG).s \notin Vocabulary) =>
              parsed = Err(InvalidTypeValue(TheField(entry, TYPE_TAG).s))

\* restricted mode turned down a `type` that is no string although value, items,
\* properties and source were all there and well shaped
C8_Witness ==
    /\ mode = "basic"
    /\ parsed = Err(InvalidType)
    /\ HasField(entry, TYPE_TAG)
    /\ HasField(entry, VALUE_TAG) /\ TheField(entry, VALUE_TAG) = Text
    /\ HasField(entry, ITEMS_TAG) /\ TheField(entry, ITEMS_TAG).kind = "Sequence"
    /\ HasField(entry, PROPERTIES_TAG) /\ TheField(entry, PROPERTIES_TAG).kind = "Mapping"
    /\ HasField(entry, SOURCE_TAG) /\ TheField(entry, SOURCE_TAG) = YString("execute_time")

(* C9: restricted mode yields no structured, boolean or null value: Ok is  *)
(* a String, Integer, Float or Source; a type of object, array, boolean or *)
(* null gives InvalidTypeValue with that type, whatever the companions;    *)
(* so a Headers map holds those four variants only.                        *)
BasicVariants == {"String", "Integer", "Float", "Source"}

C9_RestrictedIsScalarOrSource ==
    /\ (mode = "basic" /\ parsed.tag = "Ok") => parsed.value.v \in BasicVariants
    /\ mode = "basic" =>
          \A ty \in {"object", "array", "boolean", "null"} :
              HasType(entry, ty) => parsed = Err(InvalidTypeValue(ty))
    /\ (mode = "headers" /\ parsed.tag = "Ok") =>
          \A k \in DOMAIN parsed.value.headers :
              parsed.value.headers[k].v \in BasicVariants

\* restricted mode turned down an object with empty properties
C9_Witness ==
    /\ mode = "basic"
    /\ HasType(entry, "object")
    /\ HasField(entry, PROPERTIES_TAG)
    /\ TheField(entry, PROPERTIES_TAG) = YMapping(<<>>)
    /\ parsed = Err(InvalidTypeValue("object"))

(* C10 as stated: for an entry of type integer, from_entry returns         *)
(* Integer(n) exactly when `value` is a number that is a 64-bit signed     *)
(* integer n, and InvalidValue in every other case.                        *)
IsI64(y) ==
    /\ y.kind = "Number"
    /\ y.n.repr \in {"PosInt", "NegInt"}
    /\ I64_MIN <= y.n.n /\ y.n.n <= I64_MAX

C10_IntegerOrInvalidValue ==
    (mode = "full" /\ HasType(entry, "integer")) =>
        IF HasField(entry, VALUE_TAG) /\ IsI64(TheField(entry, VALUE_TAG))
        THEN parsed = Ok(VInteger(TheField(entry, VALUE_TAG).n.n))
        ELSE parsed = Err(InvalidValue)

(* C10 amended: for an entry of type integer that has a `value`,           *)
(* from_entry returns Integer(n) exactly when the value is an integer      *)
(* number (no float, not even 1.0) within the 64-bit signed range, and     *)
(* InvalidValue otherwise; without a `value` it returns                    *)
(* MissingField("value").                                                  *)
C10_IntegerOrInvalidOrMissing ==
    (mode = "full" /\ HasType(entry, "integer")) =>
        IF ~HasField(entry, VALUE_TAG) THEN parsed = Err(MissingField("value"))
        ELSE IF IsI64(TheField(entry, VALUE_TAG))
             THEN parsed = Ok(VInteger(TheField(entry, VALUE_TAG).n.n))
             ELSE parsed = Err(InvalidValue)

\* the smallest integer above the signed range was turned down
C10_Witness ==
    /\ mode = "full"
    /\ HasType(entry, "integer")
    /\ HasField(entry, VALUE_TAG)
    /\ TheField(entry, VALUE_TAG) = YNumber(PosInt(I64_MAX + 1))
    /\ parsed = Err(InvalidValue)

\* the items of an array entry and the pairs of an object entry
ItemsOf(ent) == TheField(ent, ITEMS_TAG).items
PropertiesOf(ent) == TheField(ent, PROPERTIES_TAG).entries

(* C11: a successful full-mode parse keeps the shape of the tagged tree:   *)
(* an array entry of k items gives an Array of k values, the i-th being    *)
(* the full-mode parse of the i-th item; an object entry gives an Object   *)
(* whose keys are exactly the keys of `properties`, each mapped to the     *)
(* full-mode parse of its entry; so booleans, nulls, arrays and objects    *)
(* are accepted below the top level too.                                   *)
C11_ShapePreserved ==
    (mode = "full" /\ parsed.tag = "Ok") =>
        /\ HasType(entry, "array") =>
              /\ parsed.value.v = "Array"
              /\ Len(parsed.value.items) = Len(ItemsOf(entry))
              /\ \A i \in 1..Len(ItemsOf(entry)) :
                    /\ ItemsOf(entry)[i].kind = "Mapping"
                    /\ from_entry(ItemsOf(entry)[i].entries) = Ok(parsed.value.items[i])
        /\ HasType(entry, "object") =>
              /\ parsed.value.v = "Object"
              /\ \A i \in 1..Len(PropertiesOf(entry)) :
                    /\ PropertiesOf(entry)[i][1].kind = "String"
                    /\ PropertiesOf(entry)[i][1].s \in DOMAIN parsed.value.object
                    /\ PropertiesOf(entry)[i][2].kind = "Mapping"
                    /\ from_entry(PropertiesOf(entry)[i][2].entries)
                          = Ok(parsed.value.object[PropertiesOf(entry)[i][1].s])
              /\ \A k \in DOMAIN parsed.value.object :
                    \E i \in 1..Len(PropertiesOf(entry)) : PropertiesOf(entry)[i][1] = YString(k)
              /\ Cardinality(DOMAIN parsed.value.object) = Len(PropertiesOf(entry))

\* an object of two properties was parsed, one an object that holds a boolean,
\* the other an array
C11_Witness ==
    /\ mode = "full"
    /\ HasType(entry, "object")
    /\ parsed.tag = "Ok"
    /\ parsed.value.v = "Object"
    /\ DOMAIN parsed.value.object = {"a", "b"}
    /\ parsed.value.object["a"] = VObject([k \in {"c"} |-> VBool(FALSE)])
    /\ parsed.value.object["b"] = VArray(<<VString("s")>>)

\* what goes wrong with the i-th item of an array and with the i-th pair of an
\* object, <<>> when nothing does: the item or the pair is not of the shape of a
\* nested entry, or the nested entry does not parse in full mode
ItemError(item) ==
    IF item.kind # "Mapping" THEN <<InvalidItems>>
    ELSE IF from_entry(item.entries).tag = "Err" THEN <<from_entry(item.entries).err>>
         ELSE <<>>

PropertyError(pair) ==
    IF pair[1].kind # "String" \/ pair[2].kind # "Mapping" THEN <<InvalidProperties>>
    ELSE IF from_entry(pair[2].entries).tag = "Err" THEN <<from_entry(pair[2].entries).err>>
         ELSE <<>>

FailingItems(ent) == {i \in 1..Len(ItemsOf(ent)) : ItemError(ItemsOf(ent)[i]) # <<>>}
FailingProperties(ent) ==
    {i \in 1..Len(PropertiesOf(ent)) : PropertyError(PropertiesOf(ent)[i]) # <<>>}
First(S) == CHOOSE i \in S : \A j \in S : i <= j

HasItems(ent) ==
    HasType(ent, "array") /\ HasField(ent, ITEMS_TAG)
        /\ TheField(ent, ITEMS_TAG).kind = "Sequence"
HasProperties(ent) ==
    HasType(ent, "object") /\ HasField(ent, PROPERTIES_TAG)
        /\ TheField(ent, PROPERTIES_TAG).kind = "Mapping"

(* C12: the typed parser is fail-fast and hands errors on as they are:     *)
(* when a nested entry of an array or object fails, from_entry on the      *)
(* enclosing entry returns Err, never a partial Array or Object, and the   *)
(* error is that of the first failing one in iteration order, as the       *)
(* nested parse gave it, from whatever depth it came.  An item or pair     *)
(* that is no nested entry at all fails with InvalidItems or               *)
(* InvalidProperties at its place in the order.                            *)
C12_FirstNestedErrorVerbatim ==
    mode = "full" =>
        /\ (HasItems(entry) /\ FailingItems(entry) # {}) =>
              parsed = Err(ItemError(ItemsOf(entry)[First(FailingItems(entry))])[1])
        /\ (HasProperties(entry) /\ FailingProperties(entry) # {}) =>
              parsed =
                  Err(PropertyError(PropertiesOf(entry)[First(FailingProperties(entry))])[1])

\* the first item of an array was an array whose own item had no `value`, the
\* second an entry that fails otherwise: the error from two levels down came back
C12_Witness ==
    /\ mode = "full"
    /\ HasItems(entry)
    /\ Len(ItemsOf(entry)) = 2
    /\ ItemsOf(entry)[1].kind = "Mapping"
    /\ HasItems(ItemsOf(entry)[1].entries)
    /\ ItemError(ItemsOf(entry)[2]) = <<InvalidValue>>
    /\ parsed = Err(MissingField("value"))

(* C14: restricted mode is full mode cut down to its four tags: on an     *)
(* entry of type string, integer, float or source from_basic_entry and    *)
(* from_entry return the same result, value or error with its payload;    *)
(* the results differ only on entries of type object, array, boolean or   *)
(* null.                                                                   *)
FullOnlyTypes == FullTypes \ BasicTypes

C14_RestrictedAgreesWithFull ==
    /\ (mode = "basic" /\ \E ty \in BasicTypes : HasType(entry, ty)) =>
          parsed = from_entry(entry)
    /\ (mode = "full" /\ \E ty \in BasicTypes : HasType(entry, ty)) =>
          parsed = from_basic_entry(entry)
    /\ (mode = "basic" /\ parsed # from_entry(entry)) =>
          \E ty \in FullOnlyTypes : HasType(entry, ty)
    /\ (mode = "full" /\ parsed # from_basic_entry(entry)) =>
          \E ty \in FullOnlyTypes : HasType(entry, ty)

\* restricted mode turned down a source that names no known source, with the
\* error and the payload full mode gives, although the entry had a `value` too
C14_Witness ==
    /\ mode = "basic"
    /\ HasType(entry, "source")
    /\ HasField(entry, VALUE_TAG)
    /\ parsed = Err(InvalidSourceValue("tomorrow"))
    /\ from_entry(entry) = parsed

---------------------------------------------------------------------------
(* Depth of the recursion of the resolver.                                 *)

\* nesting depth of a document: 0 for a scalar, one more than its deepest item
\* or value for a sequence or a mapping
RECURSIVE Depth(_)
RECURSIVE DeepestOf(_)
Depth(v) ==
    CASE v.kind = "Sequence" -> 1 + DeepestOf(v.items)
      [] v.kind = "Mapping" -> 1 + DeepestOf([i \in 1..Len(v.entries) |-> v.entries[i][2]])
      [] OTHER -> 0
DeepestOf(vs) ==
    IF vs = <<>> THEN 0
    ELSE LET d == Depth(Head(vs))
             rest == DeepestOf(Tail(vs))
         IN  IF d >= rest THEN d ELSE rest

(* C13 as stated: the number of nested active calls is bounded by the      *)
(* nesting depth of the document, however many placeholders a leaf holds:  *)
(* two calls for each level (replace_value and replace_sequence or         *)
(* replace_mapping) and, on a leaf, replace_value and replace_string.      *)
C13_DepthBoundedByNesting == Len(stack) <= 2 * Depth(input) + 2

(* C13 amended: the calls other than replace_string are bounded that way,  *)
(* but replace_string is active once for the leaf and once more for every  *)
(* substitution made in it so far, each call below the topmost suspended   *)
(* on a string that held a placeholder; the depth grows with the number of *)
(* substitutions a leaf needs.                                             *)
C13_DepthBoundedByNestingAndSubstitutions ==
    /\ Len(stack) <= 2 * Depth(input) + 1 + Cardinality(StringFrames)
    /\ \A i \in StringFrames : \A j \in i..Len(stack) : j \in StringFrames
    /\ \A i \in StringFrames :
          i < Len(stack) =>
              /\ stack[i].waiting
              /\ HasMarker(stack[i].s)
              /\ NoParenValues =>
                    CountOf(stack[i + 1].s, "(") < CountOf(stack[i].s, "(")

\* a leaf of two placeholders inside a sequence: after both substitutions three
\* calls of replace_string are active above the three of the walk
C13_Witness ==
    /\ pc = "running"
    /\ Depth(input) = 1
    /\ Cardinality(StringFrames) = 3
    /\ Len(stack) = 6
    /\ ~HasMarker(Top.s)

====
